---- MODULE Spec2Model ----
(***************************************************************************)
(* Model of restService.go: a REST service with JWT authorization and      *)
(* schema-per-tenant persistence on PostgreSQL through gorm.               *)
(*                                                                         *)
(* Every request runs authorize -> prepare -> handler on a goroutine of    *)
(* its own.  The goroutines share dbPool (the pooled connections) and the  *)
(* committed database.  A step of the model is the acceptance of a request *)
(* by authorize, one of the calls prepare makes on the transaction before  *)
(* the handler, or the handler together with the end of prepare.           *)
(***************************************************************************)
EXTENDS Integers, Sequences, FiniteSets, TLC

(***************************************************************************)
(* Bounds of the model.                                                    *)
(***************************************************************************)
\* Largest integer id used in a request path and as a primary key.
MaxId == 1
\* Number of requests the server accepts during one run.
MaxRequests == 2

\* The goroutines serving requests concurrently (net/http: one per request).
Workers == {1, 2}
\* The connections dbPool hands out; one for each concurrent transaction.
Conns == {"c1", "c2"}

(***************************************************************************)
(* Strings are sequences of characters over a small alphabet.              *)
(***************************************************************************)
Letters == {"a", "A", "b"}

\* The tenant claims a token can carry: absent/empty, three plain names of
\* which two differ only in case, and one that is no SQL identifier.
TenantClaims == {<<>>, <<"a">>, <<"A">>, <<"b">>, <<"a", "-">>}

\* PostgreSQL lexer: an unquoted identifier is letters only here (digits,
\* "_" and "$" are outside the alphabet); any other text in its place is a
\* syntax error of the statement.
IsIdentifier(t) == Len(t) > 0 /\ \A i \in 1..Len(t) : t[i] \in Letters

Lower(c) == IF c = "A" THEN "a" ELSE c

\* PostgreSQL folds an unquoted identifier to lower case (the tenant is
\* concatenated into the statement text without quotes).
RECURSIVE FoldIdent(_)
FoldIdent(t) == IF t = <<>> THEN <<>> ELSE <<Lower(Head(t))>> \o FoldIdent(Tail(t))

\* The schema every session starts in.
PublicSchema == <<"public">>

SchemaNames == {PublicSchema} \cup {FoldIdent(t) : t \in {u \in TenantClaims : IsIdentifier(u)}}

(***************************************************************************)
(* JWT tokens.  A token string is known by a name; Tokens gives what       *)
(* jwt.ParseWithClaims finds in it.                                        *)
(***************************************************************************)
TokenNames == {"tok_none", "tok_a", "tok_A", "tok_b", "tok_unsafe",
               "tok_badsig", "tok_expired", "garbage"}

Tokens ==
  [n \in TokenNames |->
     CASE n = "tok_none"    -> [wellformed |-> TRUE, signed |-> TRUE, expired |-> FALSE, tenant |-> <<>>]
       [] n = "tok_a"       -> [wellformed |-> TRUE, signed |-> TRUE, expired |-> FALSE, tenant |-> <<"a">>]
       [] n = "tok_A"       -> [wellformed |-> TRUE, signed |-> TRUE, expired |-> FALSE, tenant |-> <<"A">>]
       [] n = "tok_b"       -> [wellformed |-> TRUE, signed |-> TRUE, expired |-> FALSE, tenant |-> <<"b">>]
       [] n = "tok_unsafe"  -> [wellformed |-> TRUE, signed |-> TRUE, expired |-> FALSE, tenant |-> <<"a", "-">>]
       [] n = "tok_badsig"  -> [wellformed |-> TRUE, signed |-> FALSE, expired |-> FALSE, tenant |-> <<"a">>]
       [] n = "tok_expired" -> [wellformed |-> TRUE, signed |-> TRUE, expired |-> TRUE, tenant |-> <<"a">>]
       [] OTHER             -> [wellformed |-> FALSE, signed |-> FALSE, expired |-> FALSE, tenant |-> <<>>]]

\* An Authorization header is a sequence of atoms: a single space " ", or a
\* run of characters without a space (a scheme word or a token string).
Headers ==
  {<<>>, <<"Bearer">>, <<"Bearer", " ">>, <<"tok_a">>, <<"Basic", " ", "tok_a">>}
  \cup {<<"Bearer", " ", n>> : n \in TokenNames}

\* strings.SplitN(s, " ", 2): the text before the first space and the text
\* after it; the whole text when it holds no space.
RECURSIVE FirstSpace(_, _)
FirstSpace(s, i) ==
  IF i > Len(s) THEN 0 ELSE IF s[i] = " " THEN i ELSE FirstSpace(s, i + 1)

SplitN2(s) ==
  LET k == FirstSpace(s, 1) IN
  IF k = 0 THEN <<s>> ELSE <<SubSeq(s, 1, k - 1), SubSeq(s, k + 1, Len(s))>>

\* isValidAuthorizationHeader with the scheme comparison left out.
IsValidAuthorizationHeader_AnyScheme(authorizationHeader) ==
  IF authorizationHeader = <<>> THEN FALSE
  ELSE LET auth == SplitN2(authorizationHeader) IN
       IF Len(auth) = 2 THEN auth[2] # <<>> ELSE FALSE

isValidAuthorizationHeader(authorizationHeader) ==
  IF authorizationHeader = <<>> THEN FALSE
  ELSE LET auth == SplitN2(authorizationHeader) IN
       IF Len(auth) = 2 THEN auth[1] = <<"Bearer">> /\ auth[2] # <<>> ELSE FALSE

\* The claims of a token that could not be decoded.
NoClaims == [Tenant |-> <<>>]

\* jwt.ParseWithClaims with the claims validation (expiry) skipped.
ParseWithClaims_NoExpiry(tokenString) ==
  IF Len(tokenString) # 1 \/ tokenString[1] \notin TokenNames
  THEN [err |-> TRUE, Valid |-> FALSE, Claims |-> NoClaims]
  ELSE LET t == Tokens[tokenString[1]] IN
       IF ~t.wellformed THEN [err |-> TRUE, Valid |-> FALSE, Claims |-> NoClaims]
       ELSE IF ~t.signed THEN [err |-> TRUE, Valid |-> FALSE, Claims |-> [Tenant |-> t.tenant]]
       ELSE [err |-> FALSE, Valid |-> TRUE, Claims |-> [Tenant |-> t.tenant]]

\* jwt.ParseWithClaims(tokenString, &ServiceClaims{}, keyFunc) with keyFunc
\* returning jwtKey: an error for a token that is not three base64 segments,
\* whose signature does not verify under jwtKey, or whose standard claims are
\* not valid now; token.Valid is set only when there is no error.
ParseWithClaims(tokenString) ==
  IF Len(tokenString) # 1 \/ tokenString[1] \notin TokenNames
  THEN [err |-> TRUE, Valid |-> FALSE, Claims |-> NoClaims]
  ELSE LET t == Tokens[tokenString[1]] IN
       IF ~t.wellformed THEN [err |-> TRUE, Valid |-> FALSE, Claims |-> NoClaims]
       ELSE IF ~t.signed \/ t.expired
            THEN [err |-> TRUE, Valid |-> FALSE, Claims |-> [Tenant |-> t.tenant]]
            ELSE [err |-> FALSE, Valid |-> TRUE, Claims |-> [Tenant |-> t.tenant]]


(***************************************************************************)
(* Requests.                                                               *)
(***************************************************************************)
\* The {id} segment of the path, as text: the decimal ids and one text that
\* is no number.
PathParams == {"x"} \cup {ToString(i) : i \in 0..MaxId}

\* strconv.Atoi(params["id"])
Atoi(p) ==
  IF \E i \in 0..MaxId : ToString(i) = p
  THEN [val |-> CHOOSE i \in 0..MaxId : ToString(i) = p, err |-> FALSE]
  ELSE [val |-> 0, err |-> TRUE]

\* Person.Name values: the zero value and one name.
Names == {"", "n"}

\* Request bodies: none (or not JSON), or a JSON object with id and name.
NoBody == [json |-> FALSE, id |-> 0, name |-> ""]
Bodies == {NoBody} \cup [json : {TRUE}, id : 0..MaxId, name : Names]

\* var person Person; _ = json.NewDecoder(r.Body).Decode(&person)
Decode(body) ==
  IF body.json THEN [ID |-> body.id, Name |-> body.name] ELSE [ID |-> 0, Name |-> ""]

\* Decode(&person) followed by person.ID = id: the person CreatePerson and
\* UpdatePerson hand to gorm.
PersonOf(body, id) == [Decode(body) EXCEPT !.ID = id]

(***************************************************************************)
(* The database.  A row of table people is its name and, as history, the   *)
(* tenant claim of the request that wrote it; the id is its key.           *)
(***************************************************************************)
RowIds == 1..MaxId
NoWriter == <<"?">>
NoRow == [name |-> "-", by |-> NoWriter]
RowValues == [name : Names, by : TenantClaims]

\* A Person as encoded in a response (with the history of its row).
ZeroPerson == [id |-> 0, name |-> "", by |-> NoWriter]

NoConn == "none"
NoTx == [state |-> "none", created |-> {}, tabled |-> {}, path |-> PublicSchema,
         provErr |-> FALSE]
NoCall == [kind |-> "none", err |-> FALSE, mutated |-> FALSE]
NoResp == [status |-> 0, ctype |-> FALSE, body |-> {}]

VARIABLES
  pc,          \* where each goroutine is in authorize/prepare/handler
  hdr,         \* the Authorization header of its request
  tenant,      \* the tenant argument of prepare
  conn,        \* the pooled connection its transaction holds
  tx,          \* its transaction: state, schema and table it created, search
               \* path, and whether a statement of prepare returned an error
  call,        \* the handler that ran, the error it returned, and whether it
               \* changed rows in its transaction
  resp,        \* what was written to its http.ResponseWriter
  log,         \* the calls made on db (the *gorm.DB of the transaction)
  searchPath,  \* the session search_path of every pooled connection
  schemas,     \* committed schemas
  tables,      \* committed schemas that hold table people
  rows,        \* committed rows of people in every schema
  seq,         \* last value of the serial sequence of people.id, per schema
  accepted     \* number of requests accepted so far

vars == <<pc, hdr, tenant, conn, tx, call, resp, log, searchPath,
          schemas, tables, rows, seq, accepted>>

store == <<searchPath, schemas, tables, rows, seq>>

\* main: the pool is open, the database holds only the default schema.
Init ==
  /\ pc = [w \in Workers |-> "idle"]
  /\ hdr = [w \in Workers |-> <<>>]
  /\ tenant = [w \in Workers |-> <<>>]
  /\ conn = [w \in Workers |-> NoConn]
  /\ tx = [w \in Workers |-> NoTx]
  /\ call = [w \in Workers |-> NoCall]
  /\ resp = [w \in Workers |-> NoResp]
  /\ log = [w \in Workers |-> <<>>]
  /\ searchPath = [c \in Conns |-> PublicSchema]
  /\ schemas = {PublicSchema}
  /\ tables = {}
  /\ rows = [s \in SchemaNames |-> [i \in RowIds |-> NoRow]]
  /\ seq = [s \in SchemaNames |-> 0]
  /\ accepted = 0

\* http.Error(w, msg, 401)
HttpError401 == [status |-> 401, ctype |-> FALSE, body |-> {}]

\* authorize, the decisions of lines 108-132 on a header: whether prepare is
\* called, and with which tenant; 401 is answered otherwise.
AuthorizeOutcome(authorizationHeader) ==
  IF isValidAuthorizationHeader(authorizationHeader)
  THEN LET tokenString == SplitN2(authorizationHeader)[2]
           token == ParseWithClaims(tokenString)
       IN IF token.err THEN [prepare |-> FALSE, tenant |-> <<>>]
          ELSE IF token.Valid THEN [prepare |-> TRUE, tenant |-> token.Claims.Tenant]
          ELSE [prepare |-> FALSE, tenant |-> <<>>]
  ELSE [prepare |-> FALSE, tenant |-> <<>>]

\* net/http starts a goroutine for each request; the goroutines are alike,
\* so the request goes to the first one that is free.
FirstIdle(w) == pc[w] = "idle" /\ \A v \in Workers : pc[v] = "idle" => ~(v < w)

\* A goroutine takes a request and runs authorize up to the call of
\* prepare, or to the 401 it answers.
Authorize(w) ==
  /\ pc[w] = "idle"
  /\ FirstIdle(w)
  /\ accepted < MaxRequests
  /\ \E h \in Headers :
       LET o == AuthorizeOutcome(h) IN
       /\ hdr' = [hdr EXCEPT ![w] = h]
       /\ tenant' = [tenant EXCEPT ![w] = o.tenant]
       /\ pc' = [pc EXCEPT ![w] = IF o.prepare THEN "begin" ELSE "done"]
       /\ resp' = [resp EXCEPT ![w] = IF o.prepare THEN NoResp ELSE HttpError401]
  /\ accepted' = accepted + 1
  /\ UNCHANGED <<conn, tx, call, log, store>>

(***************************************************************************)
(* prepare                                                                 *)
(***************************************************************************)
Open(v) == tx[v].state \in {"active", "aborted"}
Active(w) == tx[w].state = "active"

\* Begin on a pool that hands out a connection whether it is in use or not.
Begin_AnyConn(w) ==
  /\ pc[w] = "begin"
  /\ \E c \in Conns :
       /\ conn' = [conn EXCEPT ![w] = c]
       /\ tx' = [tx EXCEPT ![w] = [NoTx EXCEPT !.state = "active", !.path = searchPath[c]]]
  /\ log' = [log EXCEPT ![w] = Append(@, "Begin")]
  /\ pc' = [pc EXCEPT ![w] = "createSchema"]
  /\ UNCHANGED <<hdr, tenant, call, resp, store, accepted>>

\* prepare with the handler called right after Begin.
Begin_ThenHandler(w) ==
  /\ pc[w] = "begin"
  /\ \E c \in Conns :
       /\ \A v \in Workers : conn[v] # c
       /\ conn' = [conn EXCEPT ![w] = c]
       /\ tx' = [tx EXCEPT ![w] = [NoTx EXCEPT !.state = "active", !.path = searchPath[c]]]
  /\ log' = [log EXCEPT ![w] = Append(@, "Begin")]
  /\ pc' = [pc EXCEPT ![w] = "handler"]
  /\ UNCHANGED <<hdr, tenant, call, resp, store, accepted>>

\* db := dbPool.Begin(): the transaction takes a connection that no other
\* transaction holds.
Begin(w) ==
  /\ pc[w] = "begin"
  /\ \E c \in Conns :
       /\ \A v \in Workers : conn[v] # c
       /\ conn' = [conn EXCEPT ![w] = c]
       /\ tx' = [tx EXCEPT ![w] = [NoTx EXCEPT !.state = "active", !.path = searchPath[c]]]
  /\ log' = [log EXCEPT ![w] = Append(@, "Begin")]
  /\ pc' = [pc EXCEPT ![w] = "createSchema"]
  /\ UNCHANGED <<hdr, tenant, call, resp, store, accepted>>

\* Another open transaction has created schema s and not yet ended.
SchemaPending(w, s) ==
  \E v \in Workers \ {w} : Open(v) /\ s \in tx[v].created

\* A statement that fails aborts the PostgreSQL transaction: every later
\* statement of it fails, and its end, COMMIT or ROLLBACK, discards what it
\* did.  The changes are dropped here already: a statement of another
\* transaction that waits for them goes on as it will after the end.
Abort(w) == [NoTx EXCEPT !.state = "aborted", !.path = searchPath[conn[w]],
                         !.provErr = tx[w].provErr]

\* A statement of prepare fails: db.Error is set on the value Exec or
\* AutoMigrate returns, which prepare drops.
ProvFail(w) == [Abort(w) EXCEPT !.provErr = TRUE]

\* db.Exec("create schema if not exists " + tenant).  The error gorm keeps
\* in db.Error is not read.
CreateSchema(w) ==
  /\ pc[w] = "createSchema"
  /\ log' = [log EXCEPT ![w] = Append(@, "CreateSchema")]
  /\ \E dbOK \in BOOLEAN :
       LET s == FoldIdent(tenant[w]) IN
       IF ~Active(w) \/ ~dbOK \/ ~IsIdentifier(tenant[w])
       THEN /\ tx' = [tx EXCEPT ![w] = ProvFail(w)]
            /\ pc' = [pc EXCEPT ![w] = "setSearchPath"]
       ELSE IF s \in schemas \cup tx[w].created
       THEN /\ tx' = tx
            /\ pc' = [pc EXCEPT ![w] = "setSearchPath"]
       ELSE IF SchemaPending(w, s)
       THEN /\ tx' = tx
            /\ pc' = [pc EXCEPT ![w] = "waitSchema"]
       ELSE /\ tx' = [tx EXCEPT ![w].created = @ \cup {s}]
            /\ pc' = [pc EXCEPT ![w] = "setSearchPath"]
  /\ UNCHANGED <<hdr, tenant, conn, call, resp, store, accepted>>

\* The create schema statement waited for the transaction that had created
\* the same schema: a duplicate key error if that one committed, the schema
\* is created if it rolled back.
WaitSchema(w) ==
  /\ pc[w] = "waitSchema"
  /\ LET s == FoldIdent(tenant[w]) IN
     /\ ~SchemaPending(w, s)
     /\ tx' = [tx EXCEPT ![w] = IF s \in schemas THEN ProvFail(w)
                                ELSE [@ EXCEPT !.created = @ \cup {s}]]
  /\ pc' = [pc EXCEPT ![w] = "setSearchPath"]
  /\ UNCHANGED <<hdr, tenant, conn, call, resp, log, store, accepted>>

\* db.Exec("set search_path to " + tenant)
SetSearchPath(w) ==
  /\ pc[w] = "setSearchPath"
  /\ log' = [log EXCEPT ![w] = Append(@, "SetSearchPath")]
  /\ \E dbOK \in BOOLEAN :
       tx' = [tx EXCEPT ![w] =
                IF ~Active(w) \/ ~dbOK \/ ~IsIdentifier(tenant[w]) THEN ProvFail(w)
                ELSE [@ EXCEPT !.path = FoldIdent(tenant[w])]]
  /\ pc' = [pc EXCEPT ![w] = "autoMigrate"]
  /\ UNCHANGED <<hdr, tenant, conn, call, resp, store, accepted>>

\* AutoMigrate that creates table people whether the schema has it or not.
AutoMigrate_Recreate(w) ==
  /\ pc[w] = "autoMigrate"
  /\ log' = [log EXCEPT ![w] = Append(@, "AutoMigrate")]
  /\ \E dbOK \in BOOLEAN :
       LET s == tx[w].path IN
       tx' = [tx EXCEPT ![w] =
                IF ~Active(w) \/ ~dbOK \/ s \notin schemas \cup @.created THEN ProvFail(w)
                ELSE [@ EXCEPT !.tabled = @ \cup {s}]]
  /\ pc' = [pc EXCEPT ![w] = "handler"]
  /\ UNCHANGED <<hdr, tenant, conn, call, resp, store, accepted>>

\* db.AutoMigrate(&Person{}): creates table people (id serial primary key,
\* name text) in the current schema unless the schema has it.
AutoMigrate(w) ==
  /\ pc[w] = "autoMigrate"
  /\ log' = [log EXCEPT ![w] = Append(@, "AutoMigrate")]
  /\ \E dbOK \in BOOLEAN :
       LET s == tx[w].path IN
       tx' = [tx EXCEPT ![w] =
                IF ~Active(w) \/ ~dbOK \/ s \notin schemas \cup @.created THEN ProvFail(w)
                ELSE IF s \in tables \cup @.tabled THEN @
                ELSE [@ EXCEPT !.tabled = @ \cup {s}]]
  /\ pc' = [pc EXCEPT ![w] = "handler"]
  /\ UNCHANGED <<hdr, tenant, conn, call, resp, store, accepted>>

(***************************************************************************)
(* Statements on table people.  A statement of transaction w works on the  *)
(* rows of the table in the search path of w, and gives the transaction,   *)
(* the rows and the sequences as they are after it.                        *)
(***************************************************************************)
HasTable(w) == tx[w].path \in tables \cup tx[w].tabled

Stmt(t, r, q) == [tx |-> t, rows |-> r, seq |-> q]

\* No statement has run yet.
Before(w) == Stmt(tx[w], rows[tx[w].path], seq)

\* db.Create(&person): INSERT INTO people.  gorm leaves a zero primary key
\* out of the statement, and the column takes the next value of its
\* sequence.  A key that exists is a unique violation.
Insert(w, st, person) ==
  LET s == st.tx.path
      id == IF person.ID = 0 THEN st.seq[s] + 1 ELSE person.ID
      q == IF person.ID = 0 THEN [st.seq EXCEPT ![s] = @ + 1] ELSE st.seq
  IN IF st.tx.state # "active" THEN st
     ELSE IF ~HasTable(w) THEN Stmt(Abort(w), st.rows, st.seq)
     ELSE IF id \notin RowIds \/ st.rows[id] # NoRow THEN Stmt(Abort(w), st.rows, q)
     ELSE Stmt(st.tx, [st.rows EXCEPT ![id] = [name |-> person.Name, by |-> tenant[w]]], q)

\* The sequence stays within the ids of the model.
InBound(w, person) ==
  Active(w) /\ HasTable(w) /\ person.ID = 0 => seq[tx[w].path] < MaxId

\* db.Delete(&person): DELETE FROM people WHERE id = person.ID; with a zero
\* primary key gorm sends the statement without WHERE.
Delete(w, st, person) ==
  IF st.tx.state # "active" THEN st
  ELSE IF ~HasTable(w) THEN Stmt(Abort(w), st.rows, st.seq)
  ELSE Stmt(st.tx,
            [i \in RowIds |-> IF person.ID = 0 \/ i = person.ID THEN NoRow ELSE st.rows[i]],
            st.seq)

\* db.Save(&person): UPDATE people SET name WHERE id; when no row is
\* affected the row is inserted; with a zero primary key it is an insert.
Save(w, st, person) ==
  IF person.ID = 0 THEN Insert(w, st, person)
  ELSE IF st.tx.state # "active" THEN st
  ELSE IF ~HasTable(w) THEN Stmt(Abort(w), st.rows, st.seq)
  ELSE Stmt(st.tx, [st.rows EXCEPT ![person.ID] = [name |-> person.Name, by |-> tenant[w]]],
            st.seq)

\* db.Find(&people): all rows, each as a Person; nothing when the statement
\* fails.
Find(w, st) ==
  IF st.tx.state = "active" /\ HasTable(w)
  THEN {[id |-> i, name |-> st.rows[i].name, by |-> st.rows[i].by] :
          i \in {j \in RowIds : st.rows[j] # NoRow}}
  ELSE {}

\* db.Where("id = ?", id).Find(&person): person stays the zero value when
\* there is no such row.
FindById(w, st, id) ==
  LET found == {r \in Find(w, st) : r.id = id} IN
  IF found = {} THEN ZeroPerson ELSE CHOOSE r \in found : TRUE

(***************************************************************************)
(* The end of prepare.                                                     *)
(***************************************************************************)
\* The exit rule with db.Commit() on both branches.
ExitCall_AlwaysCommit(err) == "Commit"

\* The exit rule with the branches exchanged.
ExitCall_Swapped(err) == IF err THEN "Commit" ELSE "Rollback"

\* The exit rule with the else branch lost.
ExitCall_NoRollback(err) == IF ~err THEN "Commit" ELSE "None"

\* if err == nil { db.Commit() } else { db.Rollback() }
ExitCall(err) == IF ~err THEN "Commit" ELSE "Rollback"

\* net/http answers 200 OK when the handler function returns without having
\* written a status.
Served(r) == IF r.status = 0 THEN [r EXCEPT !.status = 200] ELSE r

\* The handler returns err with response r written, after the calls in
\* stmts on db that left the transaction as st; prepare calls db.Commit()
\* or db.Rollback() and returns, and so does authorize.  COMMIT of an
\* aborted transaction is a rollback.  A search_path set in a transaction
\* stays on the session only when the transaction commits; a value taken
\* from a sequence stays taken, but the sequence of a table that was
\* created in the transaction dies with the table.  ("None" is no call at
\* all: the transaction stays open and keeps its connection.)
Return(w, kind, err, r, stmts, st) ==
  LET c == ExitCall(err)
      t == st.tx
      commits == c = "Commit" /\ t.state = "active"
  IN /\ call' = [call EXCEPT ![w] =
                   [kind |-> kind, err |-> err,
                    mutated |-> t.state = "active" /\ st.rows # rows[t.path]]]
     /\ resp' = [resp EXCEPT ![w] = Served(r)]
     /\ log' = [log EXCEPT ![w] = IF c = "None" THEN @ \o stmts ELSE (@ \o stmts) \o <<c>>]
     /\ tx' = [tx EXCEPT ![w] =
                 IF c = "None" THEN t
                 ELSE [NoTx EXCEPT !.state = IF commits THEN "committed" ELSE "rolledback",
                                   !.provErr = t.provErr]]
     /\ conn' = [conn EXCEPT ![w] = IF c = "None" THEN @ ELSE NoConn]
     /\ schemas' = IF commits THEN schemas \cup t.created ELSE schemas
     /\ tables' = IF commits THEN tables \cup t.tabled ELSE tables
     /\ rows' = IF commits THEN [rows EXCEPT ![t.path] = st.rows] ELSE rows
     /\ searchPath' = IF commits THEN [searchPath EXCEPT ![conn[w]] = t.path] ELSE searchPath
     /\ seq' = IF commits \/ c = "None" THEN st.seq
               ELSE [s \in SchemaNames |-> IF s \in t.tabled THEN 0 ELSE st.seq[s]]
     /\ pc' = [pc EXCEPT ![w] = "done"]
     /\ UNCHANGED <<hdr, tenant, accepted>>

(***************************************************************************)
(* The handlers.  Each reads its route ({id}, body) from the request when  *)
(* it is called.  The errors gorm keeps in db.Error are never read.  A     *)
(* transaction that has written a row holds the row until it ends, and a   *)
(* statement of another transaction on that row waits for the end: the     *)
(* statements of a handler and the end of prepare are one step.            *)
(***************************************************************************)
\* w.Header().Add("Content-Type", ...); json.NewEncoder(w).Encode(v): the
\* status line 200 and the body, or an error when the write to the client
\* fails.
Encoded(v, encOK) == [status |-> 200, ctype |-> TRUE, body |-> IF encOK THEN v ELSE {}]

\* ListPeople that deletes what it has read.
ListPeople_Deleting(w) ==
  /\ pc[w] = "handler"
  /\ \E encOK \in BOOLEAN :
       LET people == Find(w, Before(w)) IN
       Return(w, "List", FALSE, Encoded(people, encOK), <<"Find">>,
              Delete(w, Before(w), [ID |-> 0, Name |-> ""]))

ListPeople(w) ==
  /\ pc[w] = "handler"
  /\ \E encOK \in BOOLEAN :
       LET people == Find(w, Before(w)) IN
       Return(w, "List", FALSE, Encoded(people, encOK), <<"Find">>, Before(w))

GetPerson(w) ==
  /\ pc[w] = "handler"
  /\ \E p \in PathParams, encOK \in BOOLEAN :
       LET a == Atoi(p)
           person == FindById(w, Before(w), a.val)
       IN IF a.err
          THEN Return(w, "Get", TRUE, resp[w], <<>>, Before(w))
          ELSE Return(w, "Get", ~encOK, Encoded({person}, encOK), <<"Find">>, Before(w))

CreatePerson(w) ==
  /\ pc[w] = "handler"
  /\ \E p \in PathParams, encOK \in BOOLEAN :
       LET a == Atoi(p) IN
       \E person \in {PersonOf(body, a.val) : body \in Bodies} :
         LET st == Insert(w, Before(w), person)
             personList == Find(w, st)
         IN IF a.err THEN Return(w, "Create", TRUE, resp[w], <<>>, Before(w))
            ELSE /\ InBound(w, person)
                 /\ Return(w, "Create", ~encOK, Encoded(personList, encOK),
                           <<"Create", "Find">>, st)

DeletePerson(w) ==
  /\ pc[w] = "handler"
  /\ \E p \in PathParams, encOK \in BOOLEAN :
       LET a == Atoi(p)
           person == [ID |-> a.val, Name |-> ""]
           st == Delete(w, Before(w), person)
           personList == Find(w, st)
       IN IF a.err THEN Return(w, "Delete", TRUE, resp[w], <<>>, Before(w))
          ELSE Return(w, "Delete", ~encOK, Encoded(personList, encOK),
                      <<"Delete", "Find">>, st)

UpdatePerson(w) ==
  /\ pc[w] = "handler"
  /\ \E p \in PathParams, encOK \in BOOLEAN :
       LET a == Atoi(p) IN
       \E person \in {PersonOf(body, a.val) : body \in Bodies} :
         LET st == Save(w, Before(w), person)
             personList == Find(w, st)
         IN IF a.err THEN Return(w, "Update", TRUE, resp[w], <<>>, Before(w))
            ELSE /\ InBound(w, person)
                 /\ Return(w, "Update", ~encOK, Encoded(personList, encOK),
                           <<"Save", "Find">>, st)

\* The response is sent and the goroutine ends.
Finish(w) ==
  /\ pc[w] = "done"
  /\ pc' = [pc EXCEPT ![w] = "idle"]
  /\ hdr' = [hdr EXCEPT ![w] = <<>>]
  /\ tenant' = [tenant EXCEPT ![w] = <<>>]
  /\ tx' = [tx EXCEPT ![w] = IF Open(w) THEN @ ELSE NoTx]
  /\ call' = [call EXCEPT ![w] = NoCall]
  /\ resp' = [resp EXCEPT ![w] = NoResp]
  /\ log' = [log EXCEPT ![w] = <<>>]
  /\ UNCHANGED <<conn, store, accepted>>

\* No request that is over is still to be forgotten.
Ready == \A v \in Workers : pc[v] # "done"

\* set search_path and AutoMigrate read and write nothing but the goroutine's
\* own transaction: a schema that is committed has its table (both are
\* committed together), and a schema pending in the transaction is seen by
\* no other.  Their order against the steps of other goroutines makes no
\* difference.
Local(v) == pc[v] \in {"setSearchPath", "autoMigrate"}

\* No other goroutine has a local step to take.
Quiet(w) == \A v \in Workers \ {w} : ~Local(v)

\* Finish only forgets what a request that is over has left behind, so it
\* changes nothing for the other requests: it is taken before their next
\* step.  A local step is taken before the next step of the others.
Next ==
  \E w \in Workers :
    \/ Finish(w)
    \/ Ready /\ Quiet(w) /\ Authorize(w)
    \/ Ready /\ Quiet(w) /\ Begin(w)
    \/ Ready /\ Quiet(w) /\ CreateSchema(w)
    \/ Ready /\ Quiet(w) /\ WaitSchema(w)
    \/ Ready /\ Quiet(w) /\ SetSearchPath(w)
    \/ Ready /\ Quiet(w) /\ AutoMigrate(w)
    \/ Ready /\ Quiet(w) /\ ListPeople(w)
    \/ Ready /\ Quiet(w) /\ GetPerson(w)
    \/ Ready /\ Quiet(w) /\ CreatePerson(w)
    \/ Ready /\ Quiet(w) /\ DeletePerson(w)
    \/ Ready /\ Quiet(w) /\ UpdatePerson(w)

Spec == Init /\ [][Next]_vars


(***************************************************************************)
(* Properties.                                                             *)
(***************************************************************************)
Last(q) == q[Len(q)]
Count(q, x) == Cardinality({i \in 1..Len(q) : q[i] = x})
Has(q, x) == \E i \in 1..Len(q) : q[i] = x

\* A request is being served or has been served by w.
Busy(w) == pc[w] # "idle"

\* Nothing of prepare has happened for the request of w: no transaction, no
\* statement, no handler.
Untouched(w) == tx[w].state = "none" /\ conn[w] = NoConn /\ log[w] = <<>> /\ call[w] = NoCall

\* The request of w was answered 401 and nothing of prepare happened.
Rejected(w) == pc[w] = "done" /\ resp[w] = HttpError401 /\ Untouched(w)

\* The header as the specification reads it: a scheme, one space, a token.
SchemeOf(h) == IF h = <<>> THEN "" ELSE h[1]
TokenOf(h) == IF Len(h) >= 3 /\ h[2] = " " THEN SubSeq(h, 3, Len(h)) ELSE <<>>
Malformed(h) == h = <<>> \/ SchemeOf(h) # "Bearer" \/ TokenOf(h) = <<>>

\* The header carries, after Bearer, a token string with property P.
Carries(h, P(_)) ==
  ~Malformed(h) /\ Len(TokenOf(h)) = 1 /\ TokenOf(h)[1] \in TokenNames /\ P(Tokens[TokenOf(h)[1]])

BadToken(t) == ~t.wellformed \/ ~t.signed \/ t.expired
GoodToken(t) == ~BadToken(t)
NoTenantToken(t) == GoodToken(t) /\ t.tenant = <<>>

\* C1: every record in a response to a request of tenant T was written by a
\* request of tenant T (the zero-value object of a Get that found nothing
\* was written by nobody).
TenantIsolation ==
  \A w \in Workers :
    pc[w] = "done" => \A r \in resp[w].body : r.by \in {NoWriter, tenant[w]}

\* C2: a request with a malformed Authorization header is answered 401, and
\* no transaction is begun, no statement issued and no handler called.
MalformedHeaderRejected ==
  \A w \in Workers : Busy(w) /\ Malformed(hdr[w]) => Rejected(w)

MalformedHeaderSeen ==
  \E w \in Workers : Rejected(w) /\ SchemeOf(hdr[w]) = "Basic" /\ TokenOf(hdr[w]) = <<"tok_a">>

\* C3: a request whose token verifies but carries no tenant is answered 401
\* and nothing is provisioned.
MissingTenantRejected ==
  \A w \in Workers : Busy(w) /\ Carries(hdr[w], NoTenantToken) => Rejected(w)

\* C4: a request whose token has a bad signature or is expired is answered
\* 401 before a transaction is opened, and no handler is called.
InvalidTokenRejected ==
  \A w \in Workers : Busy(w) /\ Carries(hdr[w], BadToken) => Rejected(w)

ExpiredTokenSeen ==
  \E w \in Workers : Rejected(w) /\ TokenOf(hdr[w]) = <<"tok_expired">>

\* C5: when a handler returns an error, the end of its request changes
\* nothing in the committed database: no row, no table, no schema - whatever
\* the handler has changed in its transaction.
FailedHandlerLeavesNoTrace ==
  [][\A w \in Workers :
       pc[w] = "handler" /\ pc'[w] = "done" /\ call'[w].err
         => rows' = rows /\ tables' = tables /\ schemas' = schemas]_vars

\* A Create that inserted its row and then failed to send the response; the
\* row is not in the database.
FailedHandlerSeen ==
  \E w \in Workers :
    /\ pc[w] = "done" /\ call[w].kind = "Create" /\ call[w].err /\ call[w].mutated
    /\ \A s \in SchemaNames, i \in RowIds : rows[s][i] = NoRow

\* C6: prepare calls db.Commit() exactly when the handler returned no error
\* and db.Rollback() exactly when it returned one.
ExitRule ==
  \A w \in Workers :
    pc[w] = "done" /\ call[w].kind # "none" =>
      /\ Has(log[w], "Commit") <=> ~call[w].err
      /\ Has(log[w], "Rollback") <=> call[w].err

\* The handler returned nil in a transaction where prepare's statements had
\* failed: db.Commit() is called all the same.
ExitRuleSeen ==
  \E w \in Workers :
    pc[w] = "done" /\ ~call[w].err /\ tx[w].provErr /\ Last(log[w]) = "Commit"

\* C7: the calls on a transaction are Begin once and first, then statements,
\* then at most one of Commit and Rollback, after which nothing; when
\* prepare has returned there is exactly one of them, the transaction is
\* over and its connection is back in the pool.
TxLifecycle ==
  \A w \in Workers :
    LET q == log[w]
        ends == Count(q, "Commit") + Count(q, "Rollback")
    IN /\ (q # <<>>) = (tx[w].state # "none")
       /\ q # <<>> => q[1] = "Begin" /\ Count(q, "Begin") = 1
       /\ ends <= 1
       /\ ends = 1 => Last(q) \in {"Commit", "Rollback"}
       /\ (ends = 0 /\ q # <<>>) = Open(w)
       /\ Open(w) = (conn[w] # NoConn)
       /\ pc[w] = "done" /\ q # <<>> => ends = 1 /\ tx[w].state \in {"committed", "rolledback"}

\* prepare has returned after a failed provisioning and a rollback.
TxLifecycleSeen ==
  \E w \in Workers :
    pc[w] = "done" /\ tx[w].provErr /\ call[w].err /\ Last(log[w]) = "Rollback"
      /\ tx[w].state = "rolledback"

\* C8: when a statement of prepare fails the request is aborted: the client
\* is told of the failure (no success status), prepare ends by a rollback
\* and not by a commit, and nothing of the transaction is committed.
ProvisioningFailureAborts ==
  \A w \in Workers :
    pc[w] = "done" /\ tx[w].provErr =>
      /\ resp[w].status # 200
      /\ Has(log[w], "Rollback") /\ ~Has(log[w], "Commit")
      /\ tx[w].state = "rolledback"

\* C9: when the handler returns an error or a statement of prepare fails,
\* the transaction is rolled back and the response has an error status.
FailureAnswered ==
  \A w \in Workers :
    pc[w] = "done" /\ (call[w].err \/ tx[w].provErr) =>
      /\ tx[w].state = "rolledback"
      /\ resp[w].status >= 400

\* The identifiers that are safe in a statement: one or more letters.
SafeIdentifier(t) == Len(t) > 0 /\ \A i \in 1..Len(t) : t[i] \in Letters

\* C10: create schema and set search_path are only issued with a tenant that
\* is a safe identifier.
OnlySafeTenants ==
  \A w \in Workers :
    Has(log[w], "CreateSchema") \/ Has(log[w], "SetSearchPath") => SafeIdentifier(tenant[w])

\* The steps of prepare before the handler, by the place of the goroutine.
ProvisioningSteps == {"createSchema", "waitSchema", "setSearchPath", "autoMigrate"}

\* The schema of tenant t and its table people are committed.
Provisioned(t) == IsIdentifier(t) /\ FoldIdent(t) \in schemas /\ FoldIdent(t) \in tables

\* C11: a provisioning run for a tenant whose schema and table exist is a
\* no-op: its steps create no schema and no table in the transaction, leave
\* every record and sequence as it is, and the end of the request leaves the
\* committed schemas and tables as they were after the first run.
IdempotentProvisioning ==
  [][\A w \in Workers :
       Provisioned(tenant[w]) =>
         /\ pc[w] \in ProvisioningSteps /\ pc'[w] # pc[w] =>
               /\ rows' = rows /\ seq' = seq /\ schemas' = schemas /\ tables' = tables
               /\ tx'[w].created = {} /\ tx'[w].tabled = {}
         /\ pc[w] = "handler" /\ pc'[w] = "done" =>
               schemas' = schemas /\ tables' = tables]_vars

\* A later provisioning run for tenant a is over, the transaction works in
\* schema a, and the record stored by an earlier request is still there.
IdempotentProvisioningSeen ==
  \E w \in Workers :
    /\ pc[w] = "handler" /\ tenant[w] = <<"a">> /\ Provisioned(tenant[w])
    /\ Active(w) /\ tx[w].path = <<"a">> /\ tx[w].created = {} /\ tx[w].tabled = {}
    /\ \E i \in RowIds : rows[<<"a">>][i] # NoRow

\* CreatePerson called now by w with path id p and body would store its
\* person and commit: the transaction is active, the table is there, and the
\* insert goes through.
CreateCommits(w, p, body) ==
  LET person == PersonOf(body, Atoi(p).val) IN
  /\ pc[w] = "handler" /\ Active(w) /\ HasTable(w)
  /\ ~Atoi(p).err /\ InBound(w, person)
  /\ Insert(w, Before(w), person).tx.state = "active"

\* What a List of the tenant of w returns once the statements that gave st
\* are committed: the records of the schema as they are in st.
ListedAfter(w, st) == Find(w, st)

\* C12: a Create of id i with name n that commits is followed by a List of
\* the same tenant that holds exactly one record with id i, the record
\* {id: i, name: n}.
RoundTrip ==
  \A w \in Workers : \A p \in PathParams, body \in Bodies :
    CreateCommits(w, p, body) =>
      LET i == Atoi(p).val
          st == Insert(w, Before(w), PersonOf(body, i))
      IN {[id |-> r.id, name |-> r.name] : r \in {q \in ListedAfter(w, st) : q.id = i}}
           = {[id |-> i, name |-> Decode(body).Name]}

\* The calls of prepare on db before the handler, in the order of the code.
ProvisioningCalls == <<"Begin", "CreateSchema", "SetSearchPath", "AutoMigrate">>

\* The calls a handler makes on db, and the calls that end the transaction.
HandlerCalls == {"Find", "Create", "Delete", "Save"}
EndCalls == {"Commit", "Rollback"}

\* C13: the calls a request makes on its transaction are, in this order,
\* Begin, create schema, set search_path, AutoMigrate, the statements of the
\* handler, and Commit or Rollback; the handler is called, and a statement
\* of it issued, only after the four calls before it.
RequestOrder ==
  \A w \in Workers :
    LET q == log[w] IN
    /\ \A i \in 1..Len(q) :
          /\ i <= 4 => q[i] = ProvisioningCalls[i]
          /\ i > 4 => q[i] \in HandlerCalls \cup EndCalls
          /\ q[i] \in EndCalls => i = Len(q) /\ pc[w] = "done"
    /\ pc[w] = "handler" \/ call[w].kind # "none" => Len(q) >= 4
    /\ pc[w] = "done" /\ call[w].kind # "none" => Last(q) \in EndCalls

\* A request has gone through all of prepare with a handler that wrote and
\* read.
RequestOrderSeen ==
  \E w \in Workers :
    log[w] = ProvisioningCalls \o <<"Create", "Find", "Commit">>

\* C14: under every interleaving a request has at most one transaction, the
\* one it began, on a connection of its own: no connection is held by two
\* requests, a request without an open transaction holds none and has
\* nothing pending, and what is pending in a transaction (a schema, a table)
\* is pending in no other.
ScopeOwnership ==
  \A w \in Workers :
    /\ Count(log[w], "Begin") <= 1
    /\ Open(w) => conn[w] \in Conns /\ \A v \in Workers \ {w} : conn[v] # conn[w]
    /\ ~Open(w) => conn[w] = NoConn /\ tx[w].created = {} /\ tx[w].tabled = {}
    /\ tx[w].created \subseteq {FoldIdent(tenant[w])}
    /\ tx[w].tabled \subseteq {FoldIdent(tenant[w])}
    /\ \A v \in Workers \ {w} :
          tx[w].created \cap tx[v].created = {} /\ tx[w].tabled \cap tx[v].tabled = {}

\* Two requests, of tenants a and b, are in their handlers at the same time,
\* each in a transaction on its own connection.
ScopeOwnershipSeen ==
  \E w, v \in Workers :
    /\ w # v /\ pc[w] = "handler" /\ pc[v] = "handler"
    /\ Active(w) /\ Active(v) /\ tenant[w] = <<"a">> /\ tenant[v] = <<"b">>
    /\ conn[w] \in Conns /\ conn[v] \in Conns /\ conn[w] # conn[v]

\* C15: when the handler of a request is called, the search path in effect
\* in its transaction is the schema of the request's tenant, also when
\* create schema or set search_path failed; it is never the search path an
\* earlier request left on the connection.
HandlerInTenantSchema ==
  \A w \in Workers :
    pc[w] = "handler" => tx[w].path = FoldIdent(tenant[w])

\* The handler of w returned before its first call on db: the path it takes
\* when the {id} of the route is no integer.
ReturnedBeforeStatements(w) ==
  pc[w] = "done" /\ call[w].kind # "none" /\ \A i \in 1..Len(log[w]) : log[w][i] \notin HandlerCalls

\* C16: a handler that returned an error has written nothing to the
\* response, no header and no body; for an {id} that is no integer it has
\* returned the error before any statement.
ErrorPathWritesNothing ==
  \A w \in Workers :
    /\ pc[w] = "done" /\ call[w].err => ~resp[w].ctype /\ resp[w].body = {}
    /\ ReturnedBeforeStatements(w) => call[w].err /\ ~call[w].mutated

\* The committed records of tenant t: what a List of the tenant returns when
\* no other request writes.
Collection(t) ==
  IF ~IsIdentifier(t) THEN {}
  ELSE {[id |-> i, name |-> rows[FoldIdent(t)][i].name, by |-> rows[FoldIdent(t)][i].by] :
          i \in {j \in RowIds : rows[FoldIdent(t)][j] # NoRow}}

\* C17: the success response of Create, Update and Delete is the collection
\* of the tenant as it is after the request: it is what a List of the
\* tenant returns right after.
MutationReturnsCollection ==
  \A w \in Workers :
    /\ pc[w] = "done" /\ call[w].kind \in {"Create", "Update", "Delete"}
    /\ ~call[w].err /\ resp[w].status = 200
    => resp[w].body = Collection(tenant[w])

\* st is what a write of CreatePerson or UpdatePerson, called now by w with
\* path id i and this body, leaves: when the write went through, the record
\* with id i is the one of the request, with the name of the body (the empty
\* name when there is no body), and every other record is as it was.
WritesPathId(w, st, i, body) ==
  st.tx.state = "active" =>
    /\ i \in RowIds
    /\ st.rows[i] = [name |-> Decode(body).Name, by |-> tenant[w]]
    /\ \A j \in RowIds \ {i} : st.rows[j] = rows[tx[w].path][j]

\* C18: the record Create and Update write has the integer id of the path,
\* whatever the body: an id in the body decides nothing, and a body that is
\* absent or does not decode gives the record with the path id and the
\* empty name.
PathIdDecides ==
  \A w \in Workers : \A p \in PathParams, body \in Bodies :
    LET i == Atoi(p).val
        person == PersonOf(body, i)
    IN pc[w] = "handler" /\ Active(w) /\ HasTable(w) /\ ~Atoi(p).err /\ InBound(w, person) =>
         /\ WritesPathId(w, Insert(w, Before(w), person), i, body)
         /\ WritesPathId(w, Save(w, Before(w), person), i, body)
         /\ ~body.json /\ i \in RowIds => Save(w, Before(w), person).tx.state = "active"

\* C19: a List or Get request, committed or rolled back, changes no record
\* of any schema and no sequence; all it can add to the database is the
\* schema and the table of its own tenant.
ReadOnlyUnits ==
  [][\A w \in Workers :
       pc[w] = "handler" /\ pc'[w] = "done" /\ call'[w].kind \in {"List", "Get"} =>
         /\ rows' = rows /\ seq' = seq
         /\ schemas \subseteq schemas' /\ schemas' \ schemas \subseteq {FoldIdent(tenant[w])}
         /\ tables \subseteq tables' /\ tables' \ tables \subseteq {FoldIdent(tenant[w])}]_vars

\* A List that committed has returned the record stored for the tenant, and
\* the record is still stored.
ReadOnlyUnitsSeen ==
  \E w \in Workers :
    /\ pc[w] = "done" /\ call[w].kind = "List" /\ tx[w].state = "committed"
    /\ resp[w].body # {} /\ resp[w].body = Collection(tenant[w])

====
